---- MODULE Spec2Model ----
(***************************************************************************)
(* jsonresume_to_rendercv/converter.py: the JSON Resume -> RenderCV        *)
(* transformer (JSONResumeConverter) and the convert(input, output) run    *)
(* that merges the result with an existing destination file.               *)
(*                                                                         *)
(* Python values are represented as follows.                               *)
(*   dict  : a function whose DOMAIN is the set of keys that are present   *)
(*           (an absent key is a key outside DOMAIN); the empty dict and   *)
(*           the empty list are both the function with empty domain <<>>.  *)
(*   list  : a sequence.                                                   *)
(*   str   : a string; f-strings and str.join are string concatenation.    *)
(*   None  : the reserved string None below (no input string equals it).   *)
(* The top level of a YAML document keeps its key order (sort_keys=False), *)
(* so a top-level document, the text of a file and converter.render_cv     *)
(* are sequences of <<key, value>> items with distinct keys.               *)
(***************************************************************************)
EXTENDS Integers, Sequences, FiniteSets, TLC

VARIABLES
    input_ext,    \* extension of the input path
    input_file,   \* parsed content of the input path (the source document)
    schema_ok,    \* whether input_file passes the JSON Resume schema check
    output_file,  \* [exists, content]: the destination path on disk
    pc,           \* position of the current run inside convert()
    json_resume,  \* local of convert(): the loaded source
    render_cv,    \* converter.render_cv
    yaml_output,  \* local of convert(): the dumped text
    stdout,       \* number of "Falling back to default network" lines printed
    run           \* which invocation of convert() is in progress

vars == <<input_ext, input_file, schema_ok, output_file, pc, json_resume, render_cv,
          yaml_output, stdout, run>>

----------------------------------------------------------------------------
(* Bounds of the explored inputs *)

MaxEntries == 2
MaxProfiles == 2
MaxSkills == 2
MaxDestKeys == 2
MaxRuns == 2

----------------------------------------------------------------------------
(* Python helpers *)

None == "<None>"

\* d.get(k, default)
Get(d, k, default) == IF k \in DOMAIN d THEN d[k] ELSE default

\* truth value of a str-or-None
TruthyStr(v) == v /= None /\ v /= ""

\* truth value of a list or a dict
TruthyContainer(v) == DOMAIN v /= {}

\* ", ".join(words)
JoinCommaSpace(words) ==
    IF Len(words) = 0 THEN ""
    ELSE LET acc[i \in 1..Len(words)] ==
                 IF i = 1 THEN words[1] ELSE acc[i - 1] \o ", " \o words[i]
         IN acc[Len(words)]

\* keys of an ordered top-level document
Keys(doc) == {doc[i][1] : i \in DOMAIN doc}

\* doc[k] for an ordered top-level document that has the key k
Lookup(doc, k) == doc[CHOOSE i \in DOMAIN doc : doc[i][1] = k][2]

\* dict.update(items): an existing key keeps its place and takes the new
\* value, a new key is appended, items are applied in order
RECURSIVE DictUpdate(_, _)
DictUpdate(doc, items) ==
    IF items = <<>> THEN doc
    ELSE LET k == items[1][1]
             v == items[1][2]
             put == IF k \in Keys(doc)
                    THEN [i \in DOMAIN doc |->
                             IF doc[i][1] = k THEN <<k, v>> ELSE doc[i]]
                    ELSE Append(doc, <<k, v>>)
         IN DictUpdate(put, Tail(items))

----------------------------------------------------------------------------
(* class JSONResumeConverter *)

networks ==
    [k \in {"github", "gitlab", "google_scholar", "instagram", "linkedin",
            "mastodon", "orcid", "research_gate", "stackoverflow", "youtube"}
     |-> CASE k = "github" -> "GitHub"
           [] k = "gitlab" -> "GitLab"
           [] k = "google_scholar" -> "Google Scholar"
           [] k = "instagram" -> "Instagram"
           [] k = "linkedin" -> "LinkedIn"
           [] k = "mastodon" -> "Mastodon"
           [] k = "orcid" -> "ORCID"
           [] k = "research_gate" -> "ResearchGate"
           [] k = "stackoverflow" -> "StackOverflow"
           [] k = "youtube" -> "YouTube"]

default_network == "github"

\* every subscript d[k] of the listed keys succeeds on every entry
HasKeys(entries, keys) ==
    \A i \in DOMAIN entries : keys \subseteq DOMAIN entries[i]

\* format_location(location); location is None or {} (both <<>>) or a dict
format_location_raises(location) ==
    TruthyContainer(location) /\ ~({"city", "countryCode"} \subseteq DOMAIN location)

format_location(location) ==
    IF TruthyContainer(location)
    THEN location.city \o ", " \o location.countryCode
    ELSE ""

\* lines 80-83 without the fallback to the default network
resolve_network_no_fallback(key) == Get(networks, key, None)

\* self.networks.get(profile["network"]), with the fallback of lines 81-83
resolve_network(key) ==
    LET network == Get(networks, key, None)
    IN IF ~TruthyStr(network) THEN Get(networks, default_network, None)
       ELSE network

format_social_networks_raises(profiles) ==
    ~HasKeys(profiles, {"network", "username"})

format_social_networks(profiles) ==
    [i \in DOMAIN profiles |->
        [network |-> resolve_network(profiles[i].network),
         username |-> profiles[i].username]]

\* number of fallback notices format_social_networks prints: one for each
\* profile with an unrecognized network, up to the first profile whose
\* subscript raises (a profile without "network" raises before printing)
fallback_notices(profiles) ==
    LET bad == {i \in DOMAIN profiles :
                   ~({"network", "username"} \subseteq DOMAIN profiles[i])}
        stop == IF bad = {} THEN Len(profiles)
                ELSE CHOOSE i \in bad : \A j \in bad : i <= j
    IN Cardinality({i \in 1..stop :
           /\ "network" \in DOMAIN profiles[i]
           /\ ~TruthyStr(Get(networks, profiles[i].network, None))})

format_education_raises(education) ==
    ~HasKeys(education, {"institution", "area", "studyType", "startDate"})

\* format_education with endDate defaulting to the empty string
format_education_empty_end(education) ==
    [i \in DOMAIN education |->
        LET edu == education[i]
        IN [institution |-> edu.institution,
            area |-> edu.area,
            degree |-> edu.studyType,
            start_date |-> edu.startDate,
            end_date |-> Get(edu, "endDate", ""),
            location |-> Get(edu, "location", "")]]

format_education(education) ==
    [i \in DOMAIN education |->
        LET edu == education[i]
        IN [institution |-> edu.institution,
            area |-> edu.area,
            degree |-> edu.studyType,
            start_date |-> edu.startDate,
            end_date |-> Get(edu, "endDate", "present"),
            location |-> Get(edu, "location", "")]]

format_experience_raises(work) ==
    ~HasKeys(work, {"name", "position", "startDate"})

format_experience(work) ==
    [i \in DOMAIN work |->
        LET job == work[i]
        IN [company |-> job.name,
            position |-> job.position,
            location |-> Get(job, "location", ""),
            start_date |-> job.startDate,
            end_date |-> Get(job, "endDate", "present"),
            highlights |-> Get(job, "highlights", <<>>)]]

format_publications_raises(publications) ==
    ~HasKeys(publications, {"name", "releaseDate"})

format_publications(publications) ==
    [i \in DOMAIN publications |->
        LET pub == publications[i]
            formatted_publication ==
                [title |-> pub.name,
                 authors |-> Get(pub, "authors", <<>>),
                 date |-> pub.releaseDate,
                 journal |-> Get(pub, "publisher", "")]
            optional_fields ==
                {f \in {"doi", "url"} : TruthyStr(Get(pub, f, None))}
        IN formatted_publication @@ [f \in optional_fields |-> pub[f]]]

format_projects_raises(projects) ==
    \/ ~HasKeys(projects, {"name", "startDate"})
    \/ \E i \in DOMAIN projects :
          /\ "description" \notin DOMAIN projects[i]
          /\ "highlights" \notin DOMAIN projects[i]

\* format_projects with the test of line 144 on "highlights" first
format_projects_highlights_first(projects) ==
    [i \in DOMAIN projects |->
        LET proj == projects[i]
        IN [name |-> proj.name,
            start_date |-> proj.startDate,
            end_date |-> Get(proj, "endDate", "present"),
            highlights |-> IF "highlights" \in DOMAIN proj
                           THEN proj.highlights
                           ELSE <<proj.description>>]]

format_projects(projects) ==
    [i \in DOMAIN projects |->
        LET proj == projects[i]
        IN [name |-> proj.name,
            start_date |-> proj.startDate,
            end_date |-> Get(proj, "endDate", "present"),
            highlights |-> IF "description" \in DOMAIN proj
                           THEN <<proj.description>>
                           ELSE proj.highlights]]

format_awards_raises(awards) ==
    ~HasKeys(awards, {"title", "awarder"})

format_awards(awards) ==
    [i \in DOMAIN awards |->
        [label |-> awards[i].title, details |-> awards[i].awarder]]

\* the last matching skill instead of the first
last_match(skills, name) ==
    LET hits == {i \in DOMAIN skills :
                    "name" \in DOMAIN skills[i] /\ skills[i].name = name}
    IN IF hits = {} THEN 0 ELSE CHOOSE i \in hits : \A j \in hits : i >= j

\* next((skill["keywords"] for skill in skills if skill["name"] == name), []):
\* the generator reads skill["name"] of each skill in order and stops at the
\* first match, whose skill["keywords"] it yields
first_match(skills, name) ==
    LET hits == {i \in DOMAIN skills :
                    "name" \in DOMAIN skills[i] /\ skills[i].name = name}
    IN IF hits = {} THEN 0 ELSE CHOOSE i \in hits : \A j \in hits : i <= j

first_keywords_raises(skills, name) ==
    LET m == first_match(skills, name)
        scanned == IF m = 0 THEN Len(skills) ELSE m
    IN \/ \E i \in 1..scanned : "name" \notin DOMAIN skills[i]
       \/ m /= 0 /\ "keywords" \notin DOMAIN skills[m]

first_keywords(skills, name) ==
    LET m == first_match(skills, name)
    IN IF m = 0 THEN <<>> ELSE skills[m].keywords

format_technologies_raises(skills) ==
    \E name \in {"Programming Languages", "Frameworks", "Miscellaneous"} :
        first_keywords_raises(skills, name)

format_technologies(skills) ==
    LET languages == first_keywords(skills, "Programming Languages")
        frameworks == first_keywords(skills, "Frameworks")
        misc == first_keywords(skills, "Miscellaneous")
    IN << [label |-> "Languages", details |-> JoinCommaSpace(languages)],
          [label |-> "Software", details |-> JoinCommaSpace(frameworks)],
          [label |-> "Miscellaneous", details |-> JoinCommaSpace(misc)] >>

\* `if v is not None` in place of `if v`
cv_field_not_none(k, v) ==
    IF k \in {"social_networks", "sections"} THEN TRUE ELSE v /= None

\* the `if v` of the comprehension of lines 68-70, for the value of key k
cv_field_truthy(k, v) ==
    IF k \in {"social_networks", "sections"} THEN TruthyContainer(v)
    ELSE TruthyStr(v)

\* the subscripts of lines 35-42 raise (before format_social_networks runs)
init_raises_before_profiles(resume) ==
    \/ "basics" \notin DOMAIN resume
    \/ "name" \notin DOMAIN resume.basics
    \/ format_location_raises(Get(resume.basics, "location", <<>>))

\* JSONResumeConverter(json_resume) raises a lookup error
init_raises(resume) ==
    \/ init_raises_before_profiles(resume)
    \/ format_social_networks_raises(Get(resume.basics, "profiles", <<>>))
    \/ format_education_raises(Get(resume, "education", <<>>))
    \/ format_experience_raises(Get(resume, "work", <<>>))
    \/ format_publications_raises(Get(resume, "publications", <<>>))
    \/ format_projects_raises(Get(resume, "projects", <<>>))
    \/ format_technologies_raises(Get(resume, "skills", <<>>))
    \/ format_awards_raises(Get(resume, "awards", <<>>))

\* lines written to stdout by JSONResumeConverter(json_resume)
init_prints(resume) ==
    IF init_raises_before_profiles(resume) THEN 0
    ELSE fallback_notices(Get(resume.basics, "profiles", <<>>))

\* the seven candidate sections of lines 50-60
build_sections(resume) ==
    [summary |-> Get(resume.basics, "summary", ""),
     education |-> format_education(Get(resume, "education", <<>>)),
     experience |-> format_experience(Get(resume, "work", <<>>)),
     publications |-> format_publications(Get(resume, "publications", <<>>)),
     projects |-> format_projects(Get(resume, "projects", <<>>)),
     technologies |-> format_technologies(Get(resume, "skills", <<>>)),
     awards |-> format_awards(Get(resume, "awards", <<>>))]

\* lines 63-65 without the length test
keep_all_sections(sections) == sections

\* lines 63-65: only the sections with len(section) > 0 are stored
keep_sections(sections) ==
    [k \in {key \in DOMAIN sections : Len(sections[key]) > 0} |-> sections[k]]

\* lines 68-70 without the filter
keep_all_fields(cv) == cv

\* lines 68-70: only the cv fields with a truthy value are kept
remove_empty_fields(cv) ==
    [k \in {key \in DOMAIN cv : cv_field_truthy(key, cv[key])} |-> cv[k]]

\* self.render_cv after JSONResumeConverter.__init__(json_resume)
init_render_cv(resume) ==
    LET basics == resume.basics
        cv == [name |-> basics.name,
               location |-> format_location(Get(basics, "location", <<>>)),
               email |-> Get(basics, "email", None),
               phone |-> Get(basics, "phone", None),
               website |-> Get(basics, "url", ""),
               social_networks |->
                   format_social_networks(Get(basics, "profiles", <<>>)),
               sections |-> keep_sections(build_sections(resume))]
    IN << <<"cv", remove_empty_fields(cv)>> >>

----------------------------------------------------------------------------
(* yaml: the text of a document is the sequence of its top-level           *)
(* "key: node" entries; the empty file is the empty text                   *)

\* yaml.dump(doc, sort_keys=False)
yaml_dump(doc) == [i \in DOMAIN doc |-> [key |-> doc[i][1], node |-> doc[i][2]]]

\* yaml.safe_load(text): entries are stored into a dict in text order;
\* the empty text loads as None, written <<>> like the empty dict
yaml_safe_load(text) ==
    DictUpdate(<<>>, [i \in DOMAIN text |-> <<text[i].key, text[i].node>>])

\* the comprehension of line 195 without its filter
all_items(existing_data) == existing_data

\* {k: v for k, v in existing_data.items() if k != "cv"}
non_cv_items(existing_data) ==
    SelectSeq(existing_data, LAMBDA item : item[1] /= "cv")

\* lines 191-195 with the update applied to render_cv["cv"]
merge_existing_into_cv(doc, file) ==
    IF file.exists
    THEN LET items == non_cv_items(yaml_safe_load(file.content))
         IN << <<"cv", Lookup(doc, "cv") @@ [k \in Keys(items) |-> Lookup(items, k)]>> >>
    ELSE doc

\* lines 191-195: if os.path.exists(output_file), render_cv.update(...) with
\* existing_data = yaml.safe_load(outfile) or {}
merge_existing(doc, file) ==
    IF file.exists
    THEN DictUpdate(doc, non_cv_items(yaml_safe_load(file.content)))
    ELSE doc

----------------------------------------------------------------------------
(* Source documents and destinations the runs are explored on *)

\* the dicts that either lack the key k or map it to one of the values
Optional(k, values) == {<<>>} \cup {k :> v : v \in values}

\* the dict d without the key k
Without(d, k) == [x \in DOMAIN d \ {k} |-> d[x]]

\* the lists of at most n elements of S
ListsUpTo(S, n) == UNION {[1..m -> S] : m \in 0..n}

EducationEntries ==
    LET full == [institution |-> "Turin", area |-> "Mathematics",
                 studyType |-> "BSc", startDate |-> "1831"]
    IN {full @@ e @@ l : e \in Optional("endDate", {"1835"}),
                         l \in Optional("location", {"Turin, IT"})}
       \cup {Without(full, k) : k \in DOMAIN full}

WorkEntries ==
    LET full == [name |-> "Analytical Engines", position |-> "Programmer",
                 startDate |-> "1842"]
    IN {full @@ e @@ h : e \in Optional("endDate", {"1843", ""}),
                         h \in Optional("highlights", {<<"Notes", "Note G">>})}
       \cup {Without(full, k) : k \in DOMAIN full}

PublicationEntries ==
    LET full == [name |-> "Sketch", releaseDate |-> "1843"]
    IN {full @@ a @@ d @@ u :
           a \in {<<>>, [authors |-> <<"Ada", "Luigi">>, publisher |-> "Taylor"]},
           d \in Optional("doi", {"", "10.1/x"}),
           u \in Optional("url", {"https://ada.dev/sketch"})}
       \cup {Without(full, k) : k \in DOMAIN full}

ProjectEntries ==
    LET full == [name |-> "X", startDate |-> "2020"]
    IN {full @@ e @@ d @@ h :
           e \in Optional("endDate", {"2021"}),
           d \in Optional("description", {"Built X"}),
           h \in Optional("highlights", {<<>>, <<"Fast", "Small">>})}
       \cup {Without(full, k) @@ [description |-> "Built X"] : k \in DOMAIN full}

AwardEntries ==
    LET full == [title |-> "Medal", awarder |-> "Royal Society"]
    IN {full, [full EXCEPT !.title = "Prize"]}
       \cup {Without(full, k) : k \in DOMAIN full}

SkillEntries ==
    {[name |-> n, keywords |-> kw] :
        n \in {"Programming Languages", "Frameworks", "Miscellaneous", "Languages"},
        kw \in {<<>>, <<"Go">>, <<"Go", "Rust">>}}
    \cup {[name |-> "Soft Skills"]}

ProfileEntries ==
    {[network |-> n, username |-> u] :
        n \in {"github", "linkedin", "LinkedIn", "twitter"},
        u \in {"ada", "Countess"}}

MinimalBasics == [name |-> "Ada Lovelace"]

\* one document per combination of the fields of basics
BasicsDocuments ==
    {[basics |-> n @@ l @@ e @@ p @@ u @@ s @@ pr] :
        n \in Optional("name", {"", "Ada Lovelace"}),
        l \in Optional("location", {[city |-> "London", countryCode |-> "GB"],
                                    [city |-> "London"]}),
        e \in Optional("email", {"", "ada@example.org"}),
        p \in Optional("phone", {"+44 20"}),
        u \in Optional("url", {"https://ada.dev"}),
        s \in Optional("summary", {"", "Mathematician"}),
        pr \in Optional("profiles", {<<[network |-> "twitter", username |-> "ada"]>>})}

\* one document per combination of absent and one-entry sections
SectionDocuments ==
    {[basics |-> MinimalBasics @@ s] @@ ed @@ wk @@ pb @@ pj @@ sk @@ aw :
        s \in Optional("summary", {"Mathematician"}),
        ed \in Optional("education", {<<[institution |-> "Turin", area |-> "Mathematics",
                                         studyType |-> "BSc", startDate |-> "1831"]>>}),
        wk \in Optional("work", {<<[name |-> "Analytical Engines",
                                    position |-> "Programmer", startDate |-> "1842"]>>}),
        pb \in Optional("publications", {<<[name |-> "Sketch", releaseDate |-> "1843"]>>}),
        pj \in Optional("projects", {<<[name |-> "X", startDate |-> "2020",
                                        description |-> "Built X"]>>}),
        sk \in Optional("skills", {<<[name |-> "Frameworks", keywords |-> <<"Django">>]>>}),
        aw \in Optional("awards", {<<[title |-> "Medal", awarder |-> "Royal Society"]>>})}

\* documents with one section (or the profiles) drawn from all bounded lists
ListDocuments ==
    {[basics |-> MinimalBasics] @@ sec :
        sec \in {"education" :> l : l \in ListsUpTo(EducationEntries, MaxEntries)}
           \cup {"work" :> l : l \in ListsUpTo(WorkEntries, MaxEntries)}
           \cup {"publications" :> l : l \in ListsUpTo(PublicationEntries, MaxEntries)}
           \cup {"projects" :> l : l \in ListsUpTo(ProjectEntries, MaxEntries)}
           \cup {"awards" :> l : l \in ListsUpTo(AwardEntries, MaxEntries)}
           \cup {"skills" :> l : l \in ListsUpTo(SkillEntries, MaxSkills)}}
    \cup {[basics |-> MinimalBasics @@ [profiles |-> l]] :
             l \in ListsUpTo(ProfileEntries, MaxProfiles)}
    \cup {[education |-> <<>>]}

\* what a destination may hold under each top-level key
DestValues(k) ==
    CASE k = "cv" -> {[name |-> "Old Name", sections |-> [summary |-> "Old"]]}
      [] k = "design" -> {"classic", "sb2nov"}
      [] k = "locale" -> {"en"}

DestItems(k) == {<<k, v>> : v \in DestValues(k)}

\* the ordered documents of at most MaxDestKeys distinct keys
DestDocuments ==
    LET orders == {o \in ListsUpTo({"cv", "design", "locale"}, MaxDestKeys) :
                      \A i, j \in DOMAIN o : i /= j => o[i] /= o[j]}
    IN UNION {{d \in [DOMAIN o -> UNION {DestItems(o[i]) : i \in DOMAIN o}] :
                  \A i \in DOMAIN o : d[i][1] = o[i]} : o \in orders}

Absent == [exists |-> FALSE, content |-> <<>>]

\* an absent destination, an empty file, or a file holding a document
Destinations ==
    {Absent} \cup {[exists |-> TRUE, content |-> yaml_dump(d)] : d \in DestDocuments}

FewDestinations ==
    {Absent,
     [exists |-> TRUE,
      content |-> yaml_dump(<< <<"design", "classic">>,
                               <<"cv", [name |-> "Old Name"]>> >>)]}

----------------------------------------------------------------------------
(* convert(input_file, output_file), run MaxRuns times in a row *)

Init ==
    /\ \/ /\ input_file \in BasicsDocuments \cup SectionDocuments
          /\ input_ext = ".json"
          /\ output_file \in Destinations
          /\ schema_ok \in BOOLEAN
       \/ /\ input_file \in ListDocuments
          /\ input_ext = ".json"
          /\ output_file \in FewDestinations
          /\ schema_ok = TRUE
       \/ /\ input_file \in SectionDocuments
          /\ input_ext \in {".yaml", ".yml", ".txt"}
          /\ output_file \in FewDestinations
          /\ schema_ok = TRUE
    /\ pc = "start"
    /\ json_resume = <<>>
    /\ render_cv = <<>>
    /\ yaml_output = <<>>
    /\ stdout = 0
    /\ run = 1

\* lines 175-182: json.load / yaml.safe_load of the input by extension;
\* any other extension prints an error and exits with status 1
ReadInput ==
    /\ pc = "start"
    /\ IF input_ext \in {".json", ".yaml", ".yml"}
       THEN json_resume' = input_file /\ pc' = "loaded"
       ELSE UNCHANGED json_resume /\ pc' = "exited"
    /\ UNCHANGED <<input_ext, input_file, schema_ok, output_file, render_cv, yaml_output,
                   stdout, run>>

\* lines 185-186: the schema validator raises on an invalid source
Validate ==
    /\ pc = "loaded"
    /\ pc' = IF schema_ok THEN "validated" ELSE "aborted"
    /\ UNCHANGED <<input_ext, input_file, schema_ok, output_file, json_resume, render_cv,
                   yaml_output, stdout, run>>

\* line 188 with the lookup error caught and the run continuing
Construct_swallows_error ==
    /\ pc = "validated"
    /\ stdout' = stdout + init_prints(json_resume)
    /\ IF init_raises(json_resume)
       THEN pc' = "merged" /\ render_cv' = <<>>
       ELSE pc' = "constructed" /\ render_cv' = init_render_cv(json_resume)
    /\ UNCHANGED <<input_ext, input_file, schema_ok, output_file, json_resume,
                   yaml_output, run>>

\* line 188: converter = JSONResumeConverter(json_resume)
Construct ==
    /\ pc = "validated"
    /\ stdout' = stdout + init_prints(json_resume)
    /\ IF init_raises(json_resume)
       THEN pc' = "aborted" /\ UNCHANGED render_cv
       ELSE pc' = "constructed" /\ render_cv' = init_render_cv(json_resume)
    /\ UNCHANGED <<input_ext, input_file, schema_ok, output_file, json_resume,
                   yaml_output, run>>

\* lines 191-195: keep everything other than cv of an existing destination
MergeExisting ==
    /\ pc = "constructed"
    /\ render_cv' = merge_existing(render_cv, output_file)
    /\ pc' = "merged"
    /\ UNCHANGED <<input_ext, input_file, schema_ok, output_file, json_resume,
                   yaml_output, stdout, run>>

\* line 197: yaml_output = converter.convert()
Dump ==
    /\ pc = "merged"
    /\ yaml_output' = yaml_dump(render_cv)
    /\ pc' = "dumped"
    /\ UNCHANGED <<input_ext, input_file, schema_ok, output_file, json_resume, render_cv,
                   stdout, run>>

\* lines 205-206: the destination is truncated and the text written
Write ==
    /\ pc = "dumped"
    /\ output_file' = [exists |-> TRUE, content |-> yaml_output]
    /\ pc' = "done"
    /\ UNCHANGED <<input_ext, input_file, schema_ok, json_resume, render_cv, yaml_output,
                   stdout, run>>

\* main() is invoked again with the same two paths
Rerun ==
    /\ pc \in {"done", "aborted", "exited"}
    /\ run < MaxRuns
    /\ run' = run + 1
    /\ pc' = "start"
    /\ json_resume' = <<>>
    /\ render_cv' = <<>>
    /\ yaml_output' = <<>>
    /\ UNCHANGED <<input_ext, input_file, schema_ok, output_file, stdout>>

Next ==
    \/ ReadInput
    \/ Validate
    \/ Construct
    \/ MergeExisting
    \/ Dump
    \/ Write
    \/ Rerun

Spec == Init /\ [][Next]_vars

----------------------------------------------------------------------------
(* Properties *)

\* the positions at which the converter has been constructed
Constructed == pc \in {"constructed", "merged", "dumped", "done"}

\* converter.render_cv["cv"]
cv == Lookup(render_cv, "cv")

\* the document a destination holds ({} when absent or empty)
Held(file) == IF file.exists THEN yaml_safe_load(file.content) ELSE <<>>

\* the step of a run that writes the destination
WriteStep == pc = "dumped" /\ pc' = "done"

\* C1: idempotence. The destination is written by nothing but convert, so
\* when a second (or later) run writes, the destination holds what the run
\* before it wrote: the write leaves the cv subtree as it was and every
\* non-cv key of the previous output present with the same value.
C1_Idempotent ==
    [][(WriteStep /\ run > 1) =>
          LET before == Held(output_file)
              after == Held(output_file')
          IN /\ "cv" \in Keys(before) /\ "cv" \in Keys(after)
             /\ Lookup(after, "cv") = Lookup(before, "cv")
             /\ \A k \in Keys(before) \ {"cv"} :
                   k \in Keys(after) /\ Lookup(after, k) = Lookup(before, k)]_vars

\* a second run has written a destination that carries a design key
C1_Witness ==
    /\ run = 2 /\ pc = "done"
    /\ {"cv", "design"} \subseteq Keys(Held(output_file))

\* C2: merge. The document a run writes has the keys {cv} plus the non-cv
\* keys of the document D the destination held; each non-cv key has D's
\* value, cv is the value computed from the source even when D has a cv,
\* and with an absent or empty destination cv is the only key.
C2_MergeFrame ==
    [][WriteStep =>
          LET D == Held(output_file)
              W == Held(output_file')
          IN /\ Keys(W) = {"cv"} \cup (Keys(D) \ {"cv"})
             /\ \A k \in Keys(D) \ {"cv"} : Lookup(W, k) = Lookup(D, k)
             /\ Lookup(W, "cv") = Lookup(init_render_cv(input_file), "cv")
             /\ (~output_file.exists \/ output_file.content = <<>>)
                   => Keys(W) = {"cv"}]_vars

\* the first run is about to overwrite a destination that has its own cv
\* and a design, and has merged the design into render_cv
C2_Witness ==
    /\ run = 1 /\ pc = "dumped"
    /\ {"cv", "design"} \subseteq Keys(Held(output_file))
    /\ Lookup(Held(output_file), "cv").name = "Old Name"
    /\ Keys(render_cv) = Keys(Held(output_file))
    /\ "name" \in DOMAIN cv /\ cv.name = "Ada Lovelace"

\* the source lacks basics.name or a required field of a section entry
MissingRequiredField(doc) ==
    LET lacks(section, required) ==
            \E i \in DOMAIN Get(doc, section, <<>>) :
                \E k \in required : k \notin DOMAIN doc[section][i]
    IN \/ "basics" \notin DOMAIN doc
       \/ "name" \notin DOMAIN doc.basics
       \/ lacks("education", {"institution", "area", "studyType", "startDate"})
       \/ lacks("work", {"name", "position", "startDate"})
       \/ lacks("publications", {"name", "releaseDate"})
       \/ lacks("projects", {"name", "startDate"})
       \/ lacks("awards", {"title", "awarder"})

\* C3: with a required field missing, no step constructs the converter and
\* no step changes the destination: it stays absent or keeps its content.
C3_NoOutputOnMissingField ==
    [][MissingRequiredField(input_file) =>
          /\ output_file' = output_file
          /\ pc' \notin {"constructed", "merged", "dumped", "done"}]_vars

\* a valid-schema source with a missing required field has aborted in the
\* constructor, next to a destination that held a document
C3_Witness ==
    /\ pc = "aborted" /\ schema_ok
    /\ MissingRequiredField(input_file)
    /\ output_file.exists /\ "design" \in Keys(Held(output_file))

\* json_resume["basics"] of a constructed converter
basics == json_resume.basics

\* C4 as claimed: cv.name equals basics.name for every value of the name,
\* the empty string included
C4_NameVerbatim ==
    Constructed => "name" \in DOMAIN cv /\ cv.name = basics.name

\* C4 as amended: a non-empty basics.name is copied to cv.name verbatim;
\* an empty basics.name is deleted by the field-removal pass, so cv has no
\* name key.
C4_NameVerbatimUnlessEmpty ==
    Constructed =>
        /\ basics.name /= "" => "name" \in DOMAIN cv /\ cv.name = basics.name
        /\ basics.name = "" => "name" \notin DOMAIN cv

\* a converter constructed from a source whose name is the empty string
C4_Witness ==
    Constructed /\ basics.name = "" /\ "name" \notin DOMAIN cv

\* C5: every key of cv has a truthy value, in render_cv and in the written
\* destination; location, email, phone, website and social_networks are
\* keys of cv exactly when the source gives them a non-empty value.
C5_NoFalsyField ==
    Constructed =>
        /\ \A k \in DOMAIN cv \cap {"name", "location", "email", "phone", "website"} :
              cv[k] /= "" /\ cv[k] /= None
        /\ "social_networks" \in DOMAIN cv => Len(cv.social_networks) > 0
        /\ "sections" \in DOMAIN cv => DOMAIN cv.sections /= {}
        /\ "location" \in DOMAIN cv <=> Get(basics, "location", <<>>) /= <<>>
        /\ "email" \in DOMAIN cv <=> Get(basics, "email", "") /= ""
        /\ "phone" \in DOMAIN cv <=> Get(basics, "phone", "") /= ""
        /\ "website" \in DOMAIN cv <=> Get(basics, "url", "") /= ""
        /\ "social_networks" \in DOMAIN cv <=> Get(basics, "profiles", <<>>) /= <<>>
        /\ pc = "done" => Lookup(Held(output_file), "cv") = cv

\* a run has written the cv of a source with an empty email and no url,
\* merged with a destination that had a design
C5_Witness ==
    /\ pc = "done"
    /\ "email" \in DOMAIN basics /\ basics.email = "" /\ "url" \notin DOMAIN basics
    /\ "phone" \in DOMAIN cv
    /\ {"email", "website"} \cap DOMAIN cv = {}
    /\ "design" \in Keys(Held(output_file))

\* the source value each optional section is built from
SectionSource(k) ==
    CASE k = "summary" -> Get(basics, "summary", "")
      [] k = "education" -> Get(json_resume, "education", <<>>)
      [] k = "experience" -> Get(json_resume, "work", <<>>)
      [] k = "publications" -> Get(json_resume, "publications", <<>>)
      [] k = "projects" -> Get(json_resume, "projects", <<>>)
      [] k = "awards" -> Get(json_resume, "awards", <<>>)

\* C6: cv.sections has a key for summary, education, experience,
\* publications, projects or awards only with a non-empty value (and exactly
\* when the source value is non-empty), and always has technologies with
\* three entries, so cv.sections is never removed.
C6_SectionElision ==
    Constructed =>
        /\ "sections" \in DOMAIN cv
        /\ DOMAIN cv.sections \subseteq
              {"summary", "education", "experience", "publications", "projects",
               "technologies", "awards"}
        /\ \A k \in DOMAIN cv.sections \ {"technologies"} :
              Len(cv.sections[k]) > 0
        /\ \A k \in {"summary", "education", "experience", "publications",
                     "projects", "awards"} :
              k \in DOMAIN cv.sections <=> Len(SectionSource(k)) > 0
        /\ "technologies" \in DOMAIN cv.sections
        /\ Len(cv.sections.technologies) = 3

\* a converter constructed from a source without skills, with an empty
\* summary and no education, and with one award
C6_Witness ==
    /\ Constructed
    /\ "skills" \notin DOMAIN json_resume
    /\ "summary" \in DOMAIN basics /\ basics.summary = ""
    /\ DOMAIN cv.sections = {"technologies"}

\* the end_date of every target entry is the source endDate, or "present"
\* when the source entry has no endDate key
EndDatesDefaulted(source, target) ==
    \A i \in DOMAIN source :
        /\ "endDate" \notin DOMAIN source[i] => target[i].end_date = "present"
        /\ "endDate" \in DOMAIN source[i] => target[i].end_date = source[i].endDate

\* C7: in education, experience (from work) and projects, an entry without
\* endDate gets end_date "present" and an entry with endDate keeps its value.
C7_EndDateDefault ==
    Constructed =>
        \A k \in {"education", "experience", "projects"} :
            SectionSource(k) /= <<>> =>
                /\ Len(cv.sections[k]) = Len(SectionSource(k))
                /\ EndDatesDefaulted(SectionSource(k), cv.sections[k])

\* a section of two entries, the first without endDate and the second with
EndDateCase(k) ==
    /\ Len(SectionSource(k)) = 2
    /\ "endDate" \notin DOMAIN SectionSource(k)[1]
    /\ "endDate" \in DOMAIN SectionSource(k)[2]
    /\ cv.sections[k][1].end_date = "present"
    /\ cv.sections[k][2].end_date /= "present"

C7_Witness == Constructed /\ EndDateCase("education")

CanonicalLabels ==
    {"GitHub", "GitLab", "Google Scholar", "Instagram", "LinkedIn", "Mastodon",
     "ORCID", "ResearchGate", "StackOverflow", "YouTube"}

\* the profiles whose network key is not a supported key
Unrecognized(profiles) ==
    {i \in DOMAIN profiles : profiles[i].network \notin DOMAIN networks}

\* a lookup failure of the constructor that is not about a network
OtherLookupFailure(doc) ==
    \/ MissingRequiredField(doc)
    \/ format_location_raises(Get(doc.basics, "location", <<>>))
    \/ \E i \in DOMAIN Get(doc, "projects", <<>>) :
          {"description", "highlights"} \cap DOMAIN doc.projects[i] = {}

\* C8: social_networks has one entry per profile, in order, with the
\* username copied; a supported key gets its label, any other key gets
\* "GitHub" and one notice per run, and never aborts the run; every label is
\* one of the ten canonical labels.
C8_SocialNetworks ==
    /\ Constructed =>
          LET profiles == Get(basics, "profiles", <<>>)
              out == Get(cv, "social_networks", <<>>)
          IN /\ Len(out) = Len(profiles)
             /\ \A i \in DOMAIN profiles :
                   /\ out[i].username = profiles[i].username
                   /\ out[i].network \in CanonicalLabels
                   /\ out[i].network =
                         IF profiles[i].network \in DOMAIN networks
                         THEN networks[profiles[i].network]
                         ELSE "GitHub"
             /\ stdout = run * Cardinality(Unrecognized(profiles))
    /\ (pc = "aborted" /\ schema_ok) => OtherLookupFailure(input_file)

\* a converter constructed from a supported profile followed by an
\* unsupported one, resolved to LinkedIn and GitHub with one notice printed
C8_Witness ==
    /\ Constructed /\ run = 1 /\ stdout = 1
    /\ "profiles" \in DOMAIN basics /\ Len(basics.profiles) = 2
    /\ basics.profiles[1].network = "linkedin"
    /\ basics.profiles[2].network = "twitter"
    /\ cv.social_networks[1].network = "LinkedIn"
    /\ cv.social_networks[2] = [network |-> "GitHub", username |-> basics.profiles[2].username]

\* C9: a project with a description gets highlights = [description], also
\* when it has highlights too; without a description it gets the source
\* highlights as is; with neither key the constructor fails.
C9_ProjectHighlights ==
    LET projects == Get(input_file, "projects", <<>>)
    IN /\ Constructed =>
             \A i \in DOMAIN projects :
                 /\ "description" \in DOMAIN projects[i] =>
                       cv.sections.projects[i].highlights = <<projects[i].description>>
                 /\ "description" \notin DOMAIN projects[i] =>
                       cv.sections.projects[i].highlights = projects[i].highlights
       /\ (\E i \in DOMAIN projects :
              {"description", "highlights"} \cap DOMAIN projects[i] = {})
             => ~Constructed

\* a converter constructed from a project that has both keys, followed by
\* one that has highlights only
C9_Witness ==
    /\ Constructed
    /\ Len(Get(json_resume, "projects", <<>>)) = 2
    /\ {"description", "highlights"} \subseteq DOMAIN json_resume.projects[1]
    /\ json_resume.projects[1].highlights /= <<>>
    /\ "description" \notin DOMAIN json_resume.projects[2]
    /\ cv.sections.projects[1].highlights = <<"Built X">>
    /\ cv.sections.projects[2].highlights = <<"Fast", "Small">>

\* the ", "-joined text of a keyword list of at most two keywords
Joined(keywords) ==
    CASE Len(keywords) = 0 -> ""
      [] Len(keywords) = 1 -> keywords[1]
      [] Len(keywords) = 2 -> keywords[1] \o ", " \o keywords[2]

\* details is the joined keywords of the first skill of that name, or ""
DetailsOf(skills, name, details) ==
    \/ /\ \A i \in DOMAIN skills : skills[i].name /= name
       /\ details = ""
    \/ \E i \in DOMAIN skills :
          /\ skills[i].name = name
          /\ \A j \in 1..(i - 1) : skills[j].name /= name
          /\ details = Joined(skills[i].keywords)

\* C10: technologies is the three entries Languages, Software,
\* Miscellaneous in that order, with the details of the first skill named
\* "Programming Languages", "Frameworks", "Miscellaneous" respectively.
C10_TechnologiesDetails ==
    Constructed =>
        LET skills == Get(json_resume, "skills", <<>>)
            tech == cv.sections.technologies
        IN /\ Len(tech) = 3
           /\ DOMAIN tech[1] = {"label", "details"}
           /\ tech[1].label = "Languages"
           /\ tech[2].label = "Software"
           /\ tech[3].label = "Miscellaneous"
           /\ DetailsOf(skills, "Programming Languages", tech[1].details)
           /\ DetailsOf(skills, "Frameworks", tech[2].details)
           /\ DetailsOf(skills, "Miscellaneous", tech[3].details)

\* a converter constructed from two skills named "Programming Languages"
\* with different keywords: the first one's are joined
C10_Witness ==
    /\ Constructed
    /\ Len(Get(json_resume, "skills", <<>>)) = 2
    /\ json_resume.skills[1] = [name |-> "Programming Languages", keywords |-> <<"Go", "Rust">>]
    /\ json_resume.skills[2] = [name |-> "Programming Languages", keywords |-> <<"Go">>]
    /\ cv.sections.technologies[1].details = "Go, Rust"
    /\ cv.sections.technologies[2].details = ""

====
